---- MODULE Spec2Model ----
(***************************************************************************)
(* Order board of src/components/OrderManagement.tsx: one React component  *)
(* per client (viewer), all clients sharing one remote "orders" table.     *)
(* Each client keeps the fetched order list, the staged (temporary) order  *)
(* list and a pool of free ticket numbers per item kind.  Remote calls are *)
(* asynchronous: a handler that awaits the store is a task that the store  *)
(* serves in a later step and that resumes in a later step still.          *)
(***************************************************************************)
EXTENDS Bags, FiniteSets, Integers, Sequences, TLC

\* ---------------------------------------------------------------- constants
TICKET_COUNT == 10

Apple == "リンゴ"
Banana == "バナナ"
Items == {Apple, Banana}

\* getNextAvailableTicket's null
Null == -1

\* the prices wired to the two order buttons
Price(item) == IF item = Apple THEN 350 ELSE 200

\* ------------------------------------------------------------------- bounds
\* browsers that can open the page; Init says which of them have it open
NumClients == 2
Clients == 1..NumClients
\* rows already in the table when the clients start: apple tickets 1..PreloadCount
PreloadCount == 9
\* button clicks (order, confirm, clear, serve) over the whole run
MaxClicks == 2
\* handlers of one client that await the store at the same time
MaxTasks == 1
\* remote calls that fail over the whole run
MaxFailures == 1
\* the serve button is clicked on one of the first MaxServed orders of the list
MaxServed == 1
\* length of the order lists given to updateAvailableTickets in SpecPure
MaxLen == 3

VARIABLES
  store,             \* the rows of the orders table, in created_at order
  nextId,            \* the id the table gives to the next inserted row
  clock,             \* Date.now(), counted in stagings (two stagings never
                     \* read the same millisecond)
  orderItems,        \* per client: the fetched order list
  tempOrderItems,    \* per client: the staged orders
  tempTotal,         \* per client: the sum of the staged prices
  availableTickets,  \* per client: item kind -> free ticket numbers
  alert,             \* per client: the item of the open alert box, or "none"
  tasks,             \* per client: bag of handlers awaiting the store
  notif,             \* per client: change notifications not yet delivered
  viewers,           \* the clients that have the page open (mounted, subscribed)
  budget,            \* what the bounds still allow (see Budget)
  last               \* history: the step taken last

vars == <<store, nextId, clock, orderItems, tempOrderItems, tempTotal,
          availableTickets, alert, tasks, notif, viewers, budget, last>>

\* --------------------------------------------------------------- sequences
Range(s) == {s[i] : i \in 1..Len(s)}

RECURSIVE SumPrices(_)
SumPrices(items) ==
  IF items = <<>> THEN 0 ELSE Head(items).price + SumPrices(Tail(items))

\* Array.prototype.includes
Includes(s, x) == \E i \in 1..Len(s) : s[i] = x

\* Array.from({ length: TICKET_COUNT }, (_, i) => i + 1)
ArrayFrom == [i \in 1..TICKET_COUNT |-> i]

\* one pass of insertion into an ascending list
RECURSIVE InsertAsc(_, _)
InsertAsc(s, x) ==
  IF s = <<>> THEN <<x>>
  ELSE IF x < Head(s) THEN <<x>> \o s
  ELSE <<Head(s)>> \o InsertAsc(Tail(s), x)

\* Array.prototype.sort((a, b) => a - b)
RECURSIVE SortAsc(_)
SortAsc(s) ==
  IF s = <<>> THEN <<>> ELSE InsertAsc(SortAsc(Tail(s)), Head(s))

\* --------------------------------------------------------- pure functions
\* usedTickets[order.item].push(order.ticketNumber), for one item kind
RECURSIVE usedTickets(_, _)
usedTickets(orders, item) ==
  IF orders = <<>> THEN <<>>
  ELSE (IF Head(orders).item = item THEN <<Head(orders).ticketNumber>> ELSE <<>>)
         \o usedTickets(Tail(orders), item)

\* variant: the used tickets of both item kinds are taken together
updateAvailableTickets_anyItem(orders) ==
  [item \in Items |->
     SelectSeq(ArrayFrom, LAMBDA ticket :
       ~\E i \in 1..Len(orders) : orders[i].ticketNumber = ticket)]

updateAvailableTickets(orders) ==
  [item \in Items |->
     SelectSeq(ArrayFrom, LAMBDA ticket : ~Includes(usedTickets(orders, item), ticket))]

\* variant: the last free ticket instead of the first
getNextAvailableTicket_last(pool, item) ==
  IF Len(pool[item]) = 0 THEN Null ELSE pool[item][Len(pool[item])]

\* variant: ticket 1 instead of null when no ticket is free
getNextAvailableTicket_fallback(pool, item) ==
  IF Len(pool[item]) = 0 THEN 1 ELSE pool[item][1]

\* availableTickets[item][0] || null
getNextAvailableTicket(pool, item) ==
  IF Len(pool[item]) = 0 THEN Null
  ELSE IF pool[item][1] = 0 THEN Null
  ELSE pool[item][1]

\* the row -> OrderItem mapping of fetchOrdersFromDatabase
RECURSIVE MapRows(_)
MapRows(rows) ==
  IF rows = <<>> THEN <<>>
  ELSE <<[id |-> Head(rows).id, item |-> Head(rows).item,
          price |-> Head(rows).price, ticketNumber |-> Head(rows).ticket_number]>>
         \o MapRows(Tail(rows))

\* variant: of the rows with one kind and ticket only the oldest is returned
fetchOrdersFromDatabase_distinct(rows, ok) ==
  IF ok
  THEN MapRows(SelectSeq(rows, LAMBDA r :
         \A i \in 1..Len(rows) :
           (rows[i].item = r.item /\ rows[i].ticket_number = r.ticket_number)
             => rows[i].id >= r.id))
  ELSE <<>>

\* fetchOrdersFromDatabase: the rows in created_at order, or [] on error
fetchOrdersFromDatabase(rows, ok) == IF ok THEN MapRows(rows) ELSE <<>>

\* variant: the staged order's id is written as its ticket number
RECURSIVE InsertRows_id(_, _)
InsertRows_id(items, firstId) ==
  IF items = <<>> THEN <<>>
  ELSE <<[id |-> firstId, item |-> Head(items).item, price |-> Head(items).price,
          ticket_number |-> Head(items).id, status |-> "pending",
          src |-> Head(items).id]>>
         \o InsertRows_id(Tail(items), firstId + 1)

\* variant: an empty list is written as one row of column defaults
InsertRows_default(items, firstId) ==
  IF items = <<>>
  THEN <<[id |-> firstId, item |-> "none", price |-> 0, ticket_number |-> 0,
          status |-> "pending", src |-> 0]>>
  ELSE [i \in 1..Len(items) |->
          [id |-> firstId + i - 1, item |-> items[i].item, price |-> items[i].price,
           ticket_number |-> items[i].ticketNumber, status |-> "pending",
           src |-> items[i].id]]

\* the rows addOrderToDatabase inserts; the table assigns ids from firstId on.
\* src is a history field: the id of the staged order the row was written for.
RECURSIVE InsertRows(_, _)
InsertRows(items, firstId) ==
  IF items = <<>> THEN <<>>
  ELSE <<[id |-> firstId, item |-> Head(items).item, price |-> Head(items).price,
          ticket_number |-> Head(items).ticketNumber, status |-> "pending",
          src |-> Head(items).id]>>
         \o InsertRows(Tail(items), firstId + 1)

\* .delete().eq('id', id)
DeleteRows(rows, id) == SelectSeq(rows, LAMBDA r : r.id # id)

\* variant: the ticket is taken out of the pool of every item kind
RemoveTicket_all(pool, item, ticketNumber) ==
  [k \in Items |-> SelectSeq(pool[k], LAMBDA t : t # ticketNumber)]

\* prev[item].filter(t => t !== ticketNumber)
RemoveTicket(pool, item, ticketNumber) ==
  [pool EXCEPT ![item] = SelectSeq(@, LAMBDA t : t # ticketNumber)]

\* variant: the tickets of the cleared orders are not put back
ReturnTickets_none(pool, items) == pool

\* variant: only the apple tickets go back to the pool
RECURSIVE ReturnTickets_apple(_, _)
ReturnTickets_apple(pool, items) ==
  IF items = <<>> THEN pool
  ELSE ReturnTickets_apple(
         IF Head(items).item = Apple
         THEN [pool EXCEPT ![Apple] = SortAsc(Append(@, Head(items).ticketNumber))]
         ELSE pool,
         Tail(items))

\* the queued updaters of clearTempOrder, applied in order
RECURSIVE ReturnTickets(_, _)
ReturnTickets(pool, items) ==
  IF items = <<>> THEN pool
  ELSE ReturnTickets(
         IF Head(items).item \in Items
         THEN [pool EXCEPT ![Head(items).item] = SortAsc(Append(@, Head(items).ticketNumber))]
         ELSE pool,
         Tail(items))

\* ------------------------------------------------------------------- tasks
\* A task is one run of an async handler that awaits the store:
\*   op    "load" (loadInitialOrders), "listener" (the postgres_changes
\*         callback), "confirmOrder" or "removeItem";
\*   pc    the remote call the store has still to serve ("insert", "delete",
\*         "select"), "insert-answered" or "delete-answered" once the write
\*         was answered and the handler has not continued yet, or "resume"
\*         once the fetched list is on its way back;
\*   temps the tempOrderItems the confirmOrder closure captured;
\*   id    the id given to removeItem;
\*   data  the list fetchOrdersFromDatabase returns to the handler.
\*   live  the component that started the handler is still mounted (the
\*         state setters of an unmounted component do nothing).
\* History fields: target (the order whose button was clicked), writeOk and
\* fetchOk (the outcomes of the remote calls), quiet (nothing else changed
\* the table or this client's state since the handler started).
NoOrder == [id |-> 0, item |-> "none", price |-> 0, ticketNumber |-> 0]

NewTask(op, pc, temps, target) ==
  [op |-> op, pc |-> pc, temps |-> temps, id |-> target.id, data |-> <<>>,
   target |-> target, writeOk |-> TRUE, fetchOk |-> TRUE, quiet |-> TRUE,
   live |-> TRUE]

RECURSIVE BagSum(_, _)
BagSum(S, b) ==
  IF S = {} THEN 0
  ELSE LET x == CHOOSE y \in S : TRUE IN b[x] + BagSum(S \ {x}, b)

Disturb(t) == [t EXCEPT !.quiet = FALSE]

\* the bag b with every task marked as disturbed
Disturbed(b) ==
  LET S == BagToSet(b)
  IN  [y \in {Disturb(x) : x \in S} |-> BagSum({x \in S : Disturb(x) = y}, b)]

One(t) == SetToBag({t})

Orphan(t) == [t EXCEPT !.live = FALSE, !.quiet = FALSE]

\* the bag b with every task marked as started by an unmounted component
Orphaned(b) ==
  LET S == BagToSet(b)
  IN  [y \in {Orphan(x) : x \in S} |-> BagSum({x \in S : Orphan(x) = y}, b)]

\* the value of last: the operation op of client c, at the point pc of its
\* handler ("none" for a handler that does not await the store)
Step(op, c, item, ticket, t) ==
  [op |-> op, c |-> c, pc |-> t.pc, item |-> item, ticket |-> ticket,
   writeOk |-> t.writeOk, fetchOk |-> t.fetchOk, quiet |-> t.quiet]

NoTask == NewTask("none", "none", <<>>, NoOrder)

\* -------------------------------------------------------------------- Init
\* apple rows confirmed by an earlier session (src 0: no staged order of this run)
PreloadedRows == [i \in 1..PreloadCount |->
  [id |-> i, item |-> Apple, price |-> Price(Apple), ticket_number |-> i,
   status |-> "pending", src |-> 0]]

\* the button clicks (opening and closing the page included) and the failing
\* remote calls still allowed, the number of handlers one client may have
\* awaiting the store, and the clients whose user has a browser
Budget ==
  [clicks |-> MaxClicks, failures |-> MaxFailures, tasks |-> MaxTasks, pages |-> {1}]

\* client c may start one more handler that awaits the store
MayAwait(c) == BagCardinality(tasks[c]) < budget.tasks

\* a button click, counted
Click == budget.clicks > 0 /\ budget' = [budget EXCEPT !.clicks = @ - 1]

\* the table is empty, or holds apple orders written by an earlier session
InitStores == {<<>>, PreloadedRows}

InitClient ==
  /\ clock = 0
  /\ orderItems = [c \in Clients |-> <<>>]
  /\ tempOrderItems = [c \in Clients |-> <<>>]
  /\ tempTotal = [c \in Clients |-> 0]
  /\ availableTickets = [c \in Clients |-> [item \in Items |-> ArrayFrom]]
  /\ alert = [c \in Clients |-> "none"]
  /\ notif = [c \in Clients |-> 0]

Init ==
  /\ store \in InitStores
  /\ nextId = Len(store) + 1
  /\ InitClient
  \* one browser has the page open
  /\ viewers = {1}
  /\ budget = Budget
  \* the mount effect has called loadInitialOrders and subscribed the listener
  /\ tasks = [c \in Clients |-> IF c \in viewers
                                THEN One(NewTask("load", "select", <<>>, NoOrder))
                                ELSE EmptyBag]
  /\ last = Step("mount", 1, "none", Null, NoTask)

\* ------------------------------------------------------------ user actions
\* no handler of a client runs while its alert box is open
Idle(c) == c \in viewers /\ alert[c] = "none"

addTempItem(c, item) ==
  LET ticketNumber == getNextAvailableTicket(availableTickets[c], item)
      newItem == [id |-> clock + 1, item |-> item, price |-> Price(item),
                  ticketNumber |-> ticketNumber]
  IN  /\ Idle(c)
      /\ Click
      /\ IF ticketNumber # Null
         THEN /\ clock' = clock + 1
              /\ tempOrderItems' = [tempOrderItems EXCEPT ![c] = Append(@, newItem)]
              /\ tempTotal' = [tempTotal EXCEPT ![c] = SumPrices(tempOrderItems'[c])]
              /\ availableTickets' = [availableTickets EXCEPT
                                        ![c] = RemoveTicket(@, item, ticketNumber)]
              /\ tasks' = [tasks EXCEPT ![c] = Disturbed(@)]
              /\ UNCHANGED alert
         ELSE /\ alert' = [alert EXCEPT ![c] = item]
              /\ UNCHANGED <<clock, tempOrderItems, tempTotal, availableTickets, tasks>>
      /\ last' = Step("addTempItem", c, item, ticketNumber, NoTask)
      /\ UNCHANGED <<store, nextId, orderItems, notif, viewers>>

\* the user closes the alert box
dismissAlert(c) ==
  /\ alert[c] # "none"
  /\ alert' = [alert EXCEPT ![c] = "none"]
  /\ last' = Step("dismissAlert", c, alert[c], Null, NoTask)
  /\ UNCHANGED <<viewers, store, nextId, clock, orderItems, tempOrderItems, tempTotal,
                 availableTickets, tasks, notif, budget>>

clearTempOrder(c) ==
  /\ Idle(c)
  /\ Click
  /\ availableTickets' = [availableTickets EXCEPT
                            ![c] = ReturnTickets(@, tempOrderItems[c])]
  /\ tempOrderItems' = [tempOrderItems EXCEPT ![c] = <<>>]
  /\ tempTotal' = [tempTotal EXCEPT ![c] = 0]
  /\ tasks' = [tasks EXCEPT ![c] = IF tempOrderItems[c] = <<>> THEN @ ELSE Disturbed(@)]
  /\ last' = Step("clearTempOrder", c, "none", Len(tempOrderItems[c]), NoTask)
  /\ UNCHANGED <<viewers, store, nextId, clock, orderItems, alert, notif>>

\* the confirm button is disabled while nothing is staged
confirmOrder(c) ==
  /\ Idle(c)
  /\ tempOrderItems[c] # <<>>
  /\ MayAwait(c)
  /\ Click
  /\ tasks' = [tasks EXCEPT
                 ![c] = @ (+) One(NewTask("confirmOrder", "insert", tempOrderItems[c], NoOrder))]
  /\ last' = Step("confirmOrder", c, "none", Len(tempOrderItems[c]), [NoTask EXCEPT !.pc = "insert"])
  /\ UNCHANGED <<viewers, store, nextId, clock, orderItems, tempOrderItems, tempTotal,
                 availableTickets, alert, notif>>

\* the serve button of one order of the fetched list
removeItem(c, o) ==
  /\ Idle(c)
  /\ \E i \in 1..Len(orderItems[c]) : i <= MaxServed /\ o = orderItems[c][i]
  /\ MayAwait(c)
  /\ Click
  /\ tasks' = [tasks EXCEPT ![c] = @ (+) One(NewTask("removeItem", "delete", <<>>, o))]
  /\ last' = Step("removeItem", c, o.item, o.ticketNumber, [NoTask EXCEPT !.pc = "delete"])
  /\ UNCHANGED <<viewers, store, nextId, clock, orderItems, tempOrderItems, tempTotal,
                 availableTickets, alert, notif>>

\* a change notification reaches the client and starts the listener callback
listener(c) ==
  /\ Idle(c)
  /\ notif[c] > 0
  /\ MayAwait(c)
  /\ notif' = [notif EXCEPT ![c] = @ - 1]
  /\ tasks' = [tasks EXCEPT ![c] = @ (+) One(NewTask("listener", "select", <<>>, NoOrder))]
  /\ last' = Step("listener", c, "none", Null, [NoTask EXCEPT !.pc = "select"])
  /\ UNCHANGED <<viewers, store, nextId, clock, orderItems, tempOrderItems, tempTotal,
                 availableTickets, alert, budget>>

\* the page is opened: the component mounts with its initial state, calls
\* loadInitialOrders and subscribes the listener
mount(c) ==
  /\ c \in budget.pages
  /\ c \notin viewers
  /\ alert[c] = "none"
  /\ MayAwait(c)
  /\ Click
  /\ viewers' = viewers \cup {c}
  /\ tasks' = [tasks EXCEPT ![c] = @ (+) One(NewTask("load", "select", <<>>, NoOrder))]
  /\ last' = Step("mount", c, "none", Null, [NoTask EXCEPT !.pc = "select"])
  /\ UNCHANGED <<store, nextId, clock, orderItems, tempOrderItems, tempTotal,
                 availableTickets, alert, notif>>

\* the page is closed: the cleanup of the mount effect removes the channel,
\* so no notification reaches the client any more, and the component's
\* state is gone; the handlers that await the store go on without it
unmount(c) ==
  /\ Idle(c)
  /\ Click
  /\ viewers' = viewers \ {c}
  /\ notif' = [notif EXCEPT ![c] = 0]
  /\ orderItems' = [orderItems EXCEPT ![c] = <<>>]
  /\ tempOrderItems' = [tempOrderItems EXCEPT ![c] = <<>>]
  /\ tempTotal' = [tempTotal EXCEPT ![c] = 0]
  /\ availableTickets' = [availableTickets EXCEPT ![c] = [item \in Items |-> ArrayFrom]]
  /\ tasks' = [tasks EXCEPT ![c] = Orphaned(@)]
  /\ last' = Step("unmount", c, "none", Null, NoTask)
  /\ UNCHANGED <<store, nextId, clock, alert>>

\* ------------------------------------------------------------ store steps
\* the handlers of client c that await the store
TasksOf(c) == BagToSet(tasks[c])

Awaiting(c, pc) == {t \in TasksOf(c) : t.pc = pc}

\* the tasks after task t of client c became u in a step that changed the table
TasksAfterWrite(c, t, u) ==
  [d \in Clients |->
     IF d = c THEN Disturbed(tasks[c] (-) One(t)) (+) One(u) ELSE Disturbed(tasks[d])]

\* the table serves the insert of a confirmOrder; every inserted row is
\* announced to every subscribed client
addOrderToDatabase(c, t, ok) ==
  /\ t \in Awaiting(c, "insert")
  /\ IF ok
     THEN /\ UNCHANGED budget
          /\ store' = store \o InsertRows(t.temps, nextId)
          /\ nextId' = nextId + Len(t.temps)
          /\ notif' = [d \in Clients |-> IF d \in viewers THEN notif[d] + Len(t.temps) ELSE notif[d]]
          /\ tasks' = IF t.temps = <<>>
                      THEN [tasks EXCEPT ![c] =
                              (@ (-) One(t)) (+) One([t EXCEPT !.pc = "insert-answered"])]
                      ELSE TasksAfterWrite(c, t, [t EXCEPT !.pc = "insert-answered"])
     ELSE /\ budget.failures > 0
          /\ budget' = [budget EXCEPT !.failures = @ - 1]
          /\ tasks' = [tasks EXCEPT ![c] =
                         (@ (-) One(t)) (+) One([t EXCEPT !.pc = "insert-answered",
                                                    !.writeOk = FALSE])]
          /\ UNCHANGED <<store, nextId, notif>>
  /\ last' = Step(t.op, c, "none", Len(t.temps),
                  [t EXCEPT !.pc = "insert-answered", !.writeOk = ok])
  /\ UNCHANGED <<viewers, clock, orderItems, tempOrderItems, tempTotal, availableTickets, alert>>

\* the table serves the delete of a removeItem
removeOrderFromDatabase(c, t, ok) ==
  /\ t \in Awaiting(c, "delete")
  /\ IF ok
     THEN LET gone == Len(store) - Len(DeleteRows(store, t.id))
          IN  /\ store' = DeleteRows(store, t.id)
              /\ notif' = [d \in Clients |-> IF d \in viewers THEN notif[d] + gone ELSE notif[d]]
              /\ tasks' = IF gone = 0
                          THEN [tasks EXCEPT ![c] =
                                  (@ (-) One(t)) (+) One([t EXCEPT !.pc = "delete-answered"])]
                          ELSE TasksAfterWrite(c, t, [t EXCEPT !.pc = "delete-answered"])
              /\ UNCHANGED budget
     ELSE /\ budget.failures > 0
          /\ budget' = [budget EXCEPT !.failures = @ - 1]
          /\ tasks' = [tasks EXCEPT ![c] =
                         (@ (-) One(t)) (+) One([t EXCEPT !.pc = "delete-answered", !.writeOk = FALSE])]
          /\ UNCHANGED <<store, notif>>
  /\ last' = Step(t.op, c, t.target.item, t.target.ticketNumber,
                  [t EXCEPT !.pc = "delete-answered", !.writeOk = ok])
  /\ UNCHANGED <<viewers, nextId, clock, orderItems, tempOrderItems, tempTotal,
                 availableTickets, alert>>

\* the handler continues after the awaited write (confirmOrder after
\* addOrderToDatabase, removeItem after removeOrderFromDatabase) and calls
\* fetchOrdersFromDatabase, which sends the select
sendSelect(c, t) ==
  /\ alert[c] = "none"
  /\ t \in Awaiting(c, "insert-answered") \cup Awaiting(c, "delete-answered")
  /\ tasks' = [tasks EXCEPT ![c] = (@ (-) One(t)) (+) One([t EXCEPT !.pc = "select"])]
  /\ last' = Step(t.op, c, t.target.item, t.target.ticketNumber, [t EXCEPT !.pc = "select"])
  /\ UNCHANGED <<viewers, store, nextId, clock, orderItems, tempOrderItems, tempTotal,
                 availableTickets, alert, notif, budget>>

\* variant: a failed select throws and the handler never resumes
selectOrders_throws(c, t, ok) ==
  /\ t \in Awaiting(c, "select")
  /\ IF ok
     THEN /\ UNCHANGED budget
          /\ tasks' = [tasks EXCEPT ![c] =
                         (@ (-) One(t)) (+) One([t EXCEPT !.pc = "resume", !.fetchOk = ok,
                                                    !.data = fetchOrdersFromDatabase(store, ok)])]
     ELSE /\ budget.failures > 0
          /\ budget' = [budget EXCEPT !.failures = @ - 1]
          /\ tasks' = [tasks EXCEPT ![c] = @ (-) One(t)]
  /\ last' = Step(t.op, c, t.target.item, t.target.ticketNumber,
                  [t EXCEPT !.pc = "resume", !.fetchOk = ok])
  /\ UNCHANGED <<viewers, store, nextId, clock, orderItems, tempOrderItems, tempTotal,
                 availableTickets, alert, notif>>

\* the table serves the select of fetchOrdersFromDatabase
selectOrders(c, t, ok) ==
  /\ t \in Awaiting(c, "select")
  /\ IF ok
     THEN UNCHANGED budget
     ELSE /\ budget.failures > 0
          /\ budget' = [budget EXCEPT !.failures = @ - 1]
  /\ tasks' = [tasks EXCEPT ![c] =
                 (@ (-) One(t)) (+) One([t EXCEPT !.pc = "resume", !.fetchOk = ok,
                                            !.data = fetchOrdersFromDatabase(store, ok)])]
  /\ last' = Step(t.op, c, t.target.item, t.target.ticketNumber,
                  [t EXCEPT !.pc = "resume", !.fetchOk = ok])
  /\ UNCHANGED <<viewers, store, nextId, clock, orderItems, tempOrderItems, tempTotal,
                 availableTickets, alert, notif>>

\* ------------------------------------------------------------ continuations
\* the handler resumes with the fetched list: setOrderItems and
\* updateAvailableTickets (the list, [] included, is always truthy), and
\* setTempOrderItems([]) at the end of confirmOrder
resume(c, t) ==
  /\ alert[c] = "none"
  /\ t \in Awaiting(c, "resume")
  /\ IF t.live
     THEN /\ orderItems' = [orderItems EXCEPT ![c] = t.data]
          /\ availableTickets' = [availableTickets EXCEPT
                                    ![c] = updateAvailableTickets(t.data)]
          /\ IF t.op = "confirmOrder"
             THEN /\ tempOrderItems' = [tempOrderItems EXCEPT ![c] = <<>>]
                  /\ tempTotal' = [tempTotal EXCEPT ![c] = 0]
             ELSE UNCHANGED <<tempOrderItems, tempTotal>>
          /\ tasks' = [tasks EXCEPT ![c] = Disturbed(@ (-) One(t))]
     ELSE /\ tasks' = [tasks EXCEPT ![c] = @ (-) One(t)]
          /\ UNCHANGED <<orderItems, availableTickets, tempOrderItems, tempTotal>>
  /\ last' = Step(t.op, c, t.target.item, t.target.ticketNumber, [t EXCEPT !.pc = "done"])
  /\ UNCHANGED <<viewers, store, nextId, clock, alert, notif, budget>>

\* ---------------------------------------------------------- specification
Next ==
  \/ \E c \in Clients, item \in Items : addTempItem(c, item)
  \/ \E c \in Clients : dismissAlert(c)
  \/ \E c \in Clients : clearTempOrder(c)
  \/ \E c \in Clients : confirmOrder(c)
  \/ \E c \in Clients : \E o \in Range(orderItems[c]) : removeItem(c, o)
  \/ \E c \in Clients : listener(c)
  \/ \E c \in Clients : mount(c)
  \/ \E c \in Clients : unmount(c)
  \/ \E c \in Clients : \E t \in Awaiting(c, "insert"), ok \in BOOLEAN : addOrderToDatabase(c, t, ok)
  \/ \E c \in Clients : \E t \in Awaiting(c, "delete"), ok \in BOOLEAN : removeOrderFromDatabase(c, t, ok)
  \/ \E c \in Clients : \E t \in TasksOf(c) : sendSelect(c, t)
  \/ \E c \in Clients : \E t \in Awaiting(c, "select"), ok \in BOOLEAN : selectOrders(c, t, ok)
  \/ \E c \in Clients : \E t \in Awaiting(c, "resume") : resume(c, t)

Spec == Init /\ [][Next]_vars

\* ------------------------------------------- updateAvailableTickets alone
\* order lists of at most MaxLen orders, with repeated tickets and with
\* tickets below 1 and above TICKET_COUNT
PureTickets == {0, 1, 2, TICKET_COUNT, TICKET_COUNT + 1}

PureOrders ==
  UNION {{[i \in 1..n |-> [id |-> i, item |-> f[i][1], price |-> Price(f[i][1]),
                           ticketNumber |-> f[i][2]]] :
            f \in [1..n -> Items \X PureTickets]} : n \in 0..MaxLen}

PurePools == {[item \in Items |-> ArrayFrom], [item \in Items |-> <<>>]}

\* variant: the used tickets are filtered out of the pool held before
recompute_incremental(c) ==
  /\ Idle(c)
  /\ availableTickets' = [availableTickets EXCEPT ![c] =
       [item \in Items |->
          SelectSeq(availableTickets[c][item],
                    LAMBDA ticket : ~Includes(usedTickets(orderItems[c], item), ticket))]]
  /\ last' = Step("updateAvailableTickets", c, "none", Len(orderItems[c]),
                  [NoTask EXCEPT !.pc = IF last.op = "updateAvailableTickets"
                                        THEN "again" ELSE "none"])
  /\ UNCHANGED <<viewers, store, nextId, clock, orderItems, tempOrderItems, tempTotal,
                 alert, tasks, notif, budget>>

\* the component calls updateAvailableTickets on the list it holds (last.pc
\* is "again" when the step before was such a call too)
recompute(c) ==
  /\ Idle(c)
  /\ availableTickets' = [availableTickets EXCEPT ![c] = updateAvailableTickets(orderItems[c])]
  /\ last' = Step("updateAvailableTickets", c, "none", Len(orderItems[c]),
                  [NoTask EXCEPT !.pc = IF last.op = "updateAvailableTickets"
                                        THEN "again" ELSE "none"])
  /\ UNCHANGED <<viewers, store, nextId, clock, orderItems, tempOrderItems, tempTotal,
                 alert, tasks, notif, budget>>

PureInit ==
  /\ store = <<>>
  /\ nextId = 1
  /\ clock = 0
  \* two pages hold the same list and different pools
  /\ viewers = {1, 2}
  /\ \E orders \in PureOrders : orderItems = [c \in Clients |-> orders]
  /\ \E pool \in PurePools : \E other \in PurePools \ {pool} :
       availableTickets = [c \in Clients |-> IF c = 1 THEN pool ELSE other]
  /\ tempOrderItems = [c \in Clients |-> <<>>]
  /\ tempTotal = [c \in Clients |-> 0]
  /\ alert = [c \in Clients |-> "none"]
  /\ notif = [c \in Clients |-> 0]
  /\ tasks = [c \in Clients |-> EmptyBag]
  /\ budget = [Budget EXCEPT !.pages = viewers]
  /\ last = Step("mount", 1, "none", Null, NoTask)

PureNext == \E c \in Clients : recompute(c)

SpecPure == PureInit /\ [][PureNext]_vars

\* ------------------------------------------- confirmOrder called directly
\* confirmOrder itself tests nothing: only the disabled attribute of the
\* button keeps it from running on an empty staged list. Here the handler
\* is also called while nothing is staged.
confirmOrderCall(c) ==
  /\ Idle(c)
  /\ tempOrderItems[c] = <<>>
  /\ MayAwait(c)
  /\ Click
  /\ tasks' = [tasks EXCEPT
                 ![c] = @ (+) One(NewTask("confirmOrder", "insert", tempOrderItems[c], NoOrder))]
  /\ last' = Step("confirmOrder", c, "none", Len(tempOrderItems[c]), [NoTask EXCEPT !.pc = "insert"])
  /\ UNCHANGED <<viewers, store, nextId, clock, orderItems, tempOrderItems, tempTotal,
                 availableTickets, alert, notif>>

NextCall ==
  \/ Next
  \/ \E c \in Clients : confirmOrderCall(c)

SpecCall == Init /\ [][NextCall]_vars

\* ------------------------------------------------- overlapping handlers
\* one browser, as in Init, whose user clicks once more and whose page may
\* have one more handler awaiting the store
BudgetOverlap ==
  [clicks |-> MaxClicks + 1, failures |-> MaxFailures, tasks |-> MaxTasks + 1,
   pages |-> {1}]

InitOverlap ==
  /\ store \in InitStores
  /\ nextId = Len(store) + 1
  /\ InitClient
  /\ viewers = {1}
  /\ budget = BudgetOverlap
  /\ tasks = [c \in Clients |-> IF c \in viewers
                                THEN One(NewTask("load", "select", <<>>, NoOrder))
                                ELSE EmptyBag]
  /\ last = Step("mount", 1, "none", Null, NoTask)

SpecOverlap == InitOverlap /\ [][Next]_vars

\* ------------------------------------------------ two browsers, one table
\* two browsers have the page open on an empty table; both have loaded it
\* and each user has staged one apple, so both hold apple ticket 1; from
\* here on no remote call fails
StagedApple(c) == [id |-> c, item |-> Apple, price |-> Price(Apple), ticketNumber |-> 1]

InitTwo ==
  /\ store = <<>>
  /\ nextId = 1
  /\ clock = 2
  /\ viewers = {1, 2}
  /\ orderItems = [c \in Clients |-> <<>>]
  /\ tempOrderItems = [c \in Clients |-> IF c \in viewers THEN <<StagedApple(c)>> ELSE <<>>]
  /\ tempTotal = [c \in Clients |-> SumPrices(tempOrderItems[c])]
  /\ availableTickets = [c \in Clients |->
       IF c \in viewers THEN RemoveTicket([item \in Items |-> ArrayFrom], Apple, 1)
       ELSE [item \in Items |-> ArrayFrom]]
  /\ alert = [c \in Clients |-> "none"]
  /\ notif = [c \in Clients |-> 0]
  /\ tasks = [c \in Clients |-> EmptyBag]
  \* one more click for each page
  /\ budget = [clicks |-> Cardinality(viewers), failures |-> 0, tasks |-> MaxTasks,
               pages |-> viewers]
  /\ last = Step("addTempItem", 2, Apple, 1, NoTask)

\* both users confirm what they staged or close and reopen the page, and the
\* pages refetch
NextTwo ==
  \/ \E c \in Clients : confirmOrder(c)
  \/ \E c \in Clients : listener(c)
  \/ \E c \in Clients : mount(c)
  \/ \E c \in Clients : unmount(c)
  \/ \E c \in Clients : \E t \in Awaiting(c, "insert") : addOrderToDatabase(c, t, TRUE)
  \/ \E c \in Clients : \E t \in TasksOf(c) : sendSelect(c, t)
  \/ \E c \in Clients : \E t \in Awaiting(c, "select") : selectOrders(c, t, TRUE)
  \/ \E c \in Clients : \E t \in Awaiting(c, "resume") : resume(c, t)

SpecTwo == InitTwo /\ [][NextTwo]_vars

\* ------------------------------------------------------------- properties
AllTickets == 1..TICKET_COUNT
TicketsOf(orders, item) == {o.ticketNumber : o \in {x \in Range(orders) : x.item = item}}
StrictlyAscending(s) == \A i \in 1..(Len(s) - 1) : s[i] < s[i + 1]
Smallest(S) == CHOOSE m \in S : \A x \in S : m <= x
Other(item) == IF item = Apple THEN Banana ELSE Apple
\* the ascending list of the numbers of 1..TICKET_COUNT that are not in used
IsFreeList(s, used) == StrictlyAscending(s) /\ Range(s) = AllTickets \ used
\* the pending remote calls of a client, without the history fields
Calls(b) == {<<t.op, t.pc, t.temps, t.id, t.data>> : t \in BagToSet(b)}

\* C1: no two rows of the orders table with the same item kind have the same
\* ticket number.
UniqueStoreTickets ==
  \A i, j \in 1..Len(store) :
    (i # j /\ store[i].item = store[j].item) => store[i].ticket_number # store[j].ticket_number

\* C2: after updateAvailableTickets(S) the pool of each item kind is the
\* ascending, duplicate-free list of the numbers of 1..10 that are not the
\* ticket number of an order of that kind in S.
PoolIsComplement ==
  last.op = "updateAvailableTickets" =>
    \A item \in Items :
      IsFreeList(availableTickets[last.c][item], TicketsOf(orderItems[last.c], item))

\* C2 witness: the list held a repeated ticket and a ticket outside 1..10
PoolIsComplementSeen ==
  /\ last.op = "updateAvailableTickets"
  /\ \E i, j \in 1..Len(orderItems[1]) :
       /\ i # j
       /\ orderItems[1][i].item = Apple /\ orderItems[1][j].item = Apple
       /\ orderItems[1][i].ticketNumber = orderItems[1][j].ticketNumber
  /\ \E o \in Range(orderItems[1]) : o.ticketNumber \notin AllTickets
  /\ Len(availableTickets[1][Apple]) = TICKET_COUNT - 1

\* C3: addTempItem for a kind whose pool is not empty appends exactly one
\* staged order, of that kind, with the smallest number of the pool as ticket.
StageTakesSmallest ==
  [][\A c \in Clients, item \in Items :
       (addTempItem(c, item) /\ availableTickets[c][item] # <<>>) =>
         /\ Len(tempOrderItems'[c]) = Len(tempOrderItems[c]) + 1
         /\ SubSeq(tempOrderItems'[c], 1, Len(tempOrderItems[c])) = tempOrderItems[c]
         /\ LET new == tempOrderItems'[c][Len(tempOrderItems'[c])]
            IN  /\ new.item = item
                /\ new.price = Price(item)
                /\ new.ticketNumber = Smallest(Range(availableTickets[c][item]))]_vars

\* C3 witness: an order was staged with ticket 10 while an apple was staged
StageTakesSmallestSeen ==
  /\ last.op = "addTempItem" /\ last.ticket = TICKET_COUNT
  /\ Len(tempOrderItems[last.c]) = 2
  /\ tempOrderItems[last.c][2].ticketNumber = TICKET_COUNT

\* C4: addTempItem for a kind whose pool is empty creates no staged order,
\* leaves the staged list, both pools, the fetched list and the table
\* unchanged, calls the store for nothing, and opens the alert for that kind.
ExhaustedStageRejected ==
  [][\A c \in Clients, item \in Items :
       (addTempItem(c, item) /\ availableTickets[c][item] = <<>>) =>
         /\ UNCHANGED <<tempOrderItems, tempTotal, availableTickets, orderItems,
                        store, nextId, tasks, notif>>
         /\ alert[c] = "none" /\ alert'[c] = item]_vars

\* C4 witness: the alert is open after a staging attempt on an empty pool
ExhaustedStageRejectedSeen ==
  /\ last.op = "addTempItem" /\ last.ticket = Null /\ last.item = Apple
  /\ alert[last.c] = Apple
  /\ availableTickets[last.c][Apple] = <<>>
  /\ Len(store) >= TICKET_COUNT - 1

\* C5: a successful addTempItem takes exactly the allocated ticket out of the
\* pool of its kind and appends the staged order; the pool of the other kind,
\* the fetched list, the table and the pending remote calls are unchanged.
StageIsLocal ==
  [][\A c \in Clients, item \in Items :
       (addTempItem(c, item) /\ availableTickets[c][item] # <<>>) =>
         LET new == tempOrderItems'[c][Len(tempOrderItems'[c])]
         IN  /\ new.ticketNumber \in Range(availableTickets[c][item])
             /\ Range(availableTickets'[c][item]) =
                  Range(availableTickets[c][item]) \ {new.ticketNumber}
             /\ availableTickets'[c][Other(item)] = availableTickets[c][Other(item)]
             /\ \A d \in Clients \ {c} :
                  /\ availableTickets'[d] = availableTickets[d]
                  /\ tempOrderItems'[d] = tempOrderItems[d]
             /\ \A d \in Clients : Calls(tasks'[d]) = Calls(tasks[d])
             /\ UNCHANGED <<orderItems, store, nextId, notif, alert>>]_vars

\* C5 witness: an apple was staged while banana tickets 1 and 2 were both free
StageIsLocalSeen ==
  /\ last.op = "addTempItem" /\ last.ticket # Null /\ last.item = Apple
  /\ tempOrderItems[last.c] # <<>>
  /\ availableTickets[last.c][Banana] = ArrayFrom
  /\ last.ticket \notin Range(availableTickets[last.c][Apple])

\* C6: confirmOrder captures the staged list; its successful insert appends
\* to the table exactly one row per captured order, in order, with that
\* order's item kind, price and ticket number; and when the handler resumes
\* on the page that started it after a successful insert and a successful
\* refetch the staged list is empty, the fetched list is the list the select
\* returned and each pool is the ascending list of 1..10 minus the fetched
\* tickets of its kind.
ConfirmWritesAndRefetches ==
  [][\A c \in Clients :
       /\ confirmOrder(c) =>
            \E t \in BagToSet(tasks'[c]) :
              t.op = "confirmOrder" /\ t.pc = "insert" /\ t.temps = tempOrderItems[c]
       /\ \A t \in TasksOf(c) :
            /\ addOrderToDatabase(c, t, TRUE) =>
                 /\ Len(store') = Len(store) + Len(t.temps)
                 /\ SubSeq(store', 1, Len(store)) = store
                 /\ \A i \in 1..Len(t.temps) :
                      LET row == store'[Len(store) + i]
                      IN  /\ row.item = t.temps[i].item
                          /\ row.price = t.temps[i].price
                          /\ row.ticket_number = t.temps[i].ticketNumber
                          /\ \A j \in 1..Len(store) : store[j].id # row.id
            /\ (t.op = "confirmOrder" /\ t.live /\ t.writeOk /\ t.fetchOk /\ resume(c, t)) =>
                 /\ tempOrderItems'[c] = <<>>
                 /\ orderItems'[c] = t.data
                 /\ \A item \in Items :
                      IsFreeList(availableTickets'[c][item], TicketsOf(t.data, item))]_vars

\* C6 witness: one apple staged from a full pool and confirmed: the table
\* holds one apple row with ticket 1 and the apple pool is 2..10
ConfirmWritesAndRefetchesSeen ==
  /\ last.op = "confirmOrder" /\ last.pc = "done" /\ last.writeOk /\ last.fetchOk
  /\ Len(store) = 1 /\ store[1].item = Apple /\ store[1].ticket_number = 1
  /\ store[1].price = Price(Apple)
  /\ orderItems[last.c] = MapRows(store)
  /\ tempOrderItems[last.c] = <<>>
  /\ availableTickets[last.c][Apple] = Tail(ArrayFrom)
  /\ availableTickets[last.c][Banana] = ArrayFrom

\* C7: when confirmOrder empties the staged list, every order it captured and
\* every order in the staged list at that moment has a row in the table.
ConfirmNeverDiscards ==
  [][\A c \in Clients : \A t \in TasksOf(c) :
       (t.op = "confirmOrder" /\ t.live /\ resume(c, t)) =>
         \A o \in Range(t.temps) \cup Range(tempOrderItems[c]) :
           \E i \in 1..Len(store) : store[i].src = o.id]_vars

\* C8: the successful delete of removeItem(id) takes the row with that id,
\* and no other row, out of the table; and when the handler resumes after a
\* successful delete and refetch, nothing else having changed the table or
\* the client's state meanwhile, the row is not in the table, the pool of the
\* removed order's kind is the pool from before plus the removed ticket, and
\* the pool of the other kind is unchanged.
RemoveReturnsItsTicket ==
  [][\A c \in Clients : \A t \in TasksOf(c) :
       /\ removeOrderFromDatabase(c, t, TRUE) =>
            /\ \A i \in 1..Len(store') : store'[i].id # t.id
            /\ \A i \in 1..Len(store) :
                 store[i].id # t.id => \E j \in 1..Len(store') : store'[j] = store[i]
            /\ Len(store') >= Len(store) - 1
       /\ (t.op = "removeItem" /\ t.writeOk /\ t.fetchOk /\ t.quiet /\ resume(c, t)) =>
            /\ \A i \in 1..Len(store) : store[i].id # t.id
            /\ Range(availableTickets'[c][t.target.item]) =
                 Range(availableTickets[c][t.target.item]) \cup {t.target.ticketNumber}
            /\ availableTickets'[c][Other(t.target.item)] =
                 availableTickets[c][Other(t.target.item)]]_vars

\* C9: the pool of each item kind of each client is strictly ascending and
\* holds only numbers of 1..10.
PoolsStrictlyAscending ==
  \A c \in Clients, item \in Items :
    /\ StrictlyAscending(availableTickets[c][item])
    /\ Range(availableTickets[c][item]) \subseteq AllTickets

\* C10: clearTempOrder empties the staged list, leaves the table, the fetched
\* list and the pending remote calls unchanged, and each pool then holds
\* exactly the numbers it held before and the tickets of the cleared staged
\* orders of its kind.
ClearReturnsTickets ==
  [][\A c \in Clients :
       clearTempOrder(c) =>
         /\ tempOrderItems'[c] = <<>>
         /\ UNCHANGED <<store, nextId, notif, orderItems>>
         /\ \A d \in Clients : Calls(tasks'[d]) = Calls(tasks[d])
         /\ \A d \in Clients : BagCardinality(tasks'[d]) = BagCardinality(tasks[d])
         /\ \A item \in Items :
              Range(availableTickets'[c][item]) =
                Range(availableTickets[c][item]) \cup TicketsOf(tempOrderItems[c], item)]_vars

\* C10 witness: with apples 1..9 fetched, the apple staged with ticket 10 was
\* cleared and ticket 10 is back in the apple pool
ClearReturnsTicketsSeen ==
  /\ last.op = "clearTempOrder" /\ last.ticket = 1
  /\ tempOrderItems[last.c] = <<>>
  /\ Len(orderItems[last.c]) = TICKET_COUNT - 1
  /\ orderItems[last.c] = MapRows(store)
  /\ availableTickets[last.c][Apple] = <<TICKET_COUNT>>
  /\ availableTickets[last.c][Banana] = ArrayFrom

\* C11: confirmOrder called while the staged list is empty leaves the table
\* as it is: no step of that handler inserts or deletes a row.
EmptyConfirmKeepsStore ==
  [][\A c \in Clients :
       /\ confirmOrderCall(c) => UNCHANGED <<store, nextId>>
       /\ \A t \in TasksOf(c) :
            (/\ t.op = "confirmOrder" /\ t.temps = <<>>
             /\ \/ \E ok \in BOOLEAN : addOrderToDatabase(c, t, ok)
                \/ sendSelect(c, t)
                \/ \E ok \in BOOLEAN : selectOrders(c, t, ok)
                \/ resume(c, t))
            => UNCHANGED <<store, nextId>>]_vars

\* C11 witness: the table, holding the preloaded rows, has served the insert
\* of a confirmOrder that captured an empty staged list
EmptyConfirmKeepsStoreSeen ==
  /\ last.op = "confirmOrder" /\ last.pc = "insert-answered" /\ last.ticket = 0
  /\ last.writeOk
  /\ store = PreloadedRows
  /\ \E t \in TasksOf(last.c) :
       t.op = "confirmOrder" /\ t.pc = "insert-answered" /\ t.temps = <<>>
  /\ tempOrderItems[last.c] = <<>>

\* every handler of every open page has run to its end, no notification is
\* on its way and no alert box is open
Settled ==
  \A c \in viewers : tasks[c] = EmptyBag /\ notif[c] = 0 /\ alert[c] = "none"

\* C12: when no remote call has failed and nothing is in flight any more (the
\* table can then only change by a further click), every open page shows the
\* orders of the table and, if it has nothing staged, each of its pools
\* holds the numbers of 1..10 that are not a ticket of its kind in the table.
ViewersConverge ==
  (Settled /\ budget.failures = BudgetOverlap.failures) =>
    \A c \in viewers :
      /\ orderItems[c] = MapRows(store)
      /\ tempOrderItems[c] = <<>> =>
           \A item \in Items :
             Range(availableTickets[c][item]) = AllTickets \ TicketsOf(MapRows(store), item)

\* the list shows exactly the rows, in order
ShowsRows(orders, rows) ==
  /\ Len(orders) = Len(rows)
  /\ \A i \in 1..Len(rows) :
       /\ orders[i].id = rows[i].id /\ orders[i].item = rows[i].item
       /\ orders[i].price = rows[i].price /\ orders[i].ticketNumber = rows[i].ticket_number

\* the tickets of the rows of one kind
RowTickets(rows, item) == {r.ticket_number : r \in {x \in Range(rows) : x.item = item}}

\* C13: two pages that staged the same apple ticket from the same fetched
\* list can both confirm, which leaves two apple rows with one ticket in the
\* table; and whenever a page resumes with a list fetched from the table as
\* it now is, the page then shows exactly the rows of the table and each of
\* its pools is the ascending list of 1..10 minus the table's tickets of
\* that kind.
RefetchReconciles ==
  [][\A c \in Clients : \A t \in TasksOf(c) :
       (resume(c, t) /\ t.fetchOk /\ t.quiet) =>
         /\ ShowsRows(orderItems'[c], store')
         /\ \A item \in Items :
              IsFreeList(availableTickets'[c][item], RowTickets(store', item))]_vars

\* C13 witness: both confirms were written, the table holds two apple rows
\* with ticket 1, one for each page's staged order, and after their
\* refetches both pages show both rows and have the apple pool 2..10
RefetchReconcilesSeen ==
  /\ Len(store) = 2
  /\ store[1].item = Apple /\ store[2].item = Apple
  /\ store[1].ticket_number = 1 /\ store[2].ticket_number = 1
  /\ {store[1].src, store[2].src} = {StagedApple(1).id, StagedApple(2).id}
  /\ Settled
  /\ last.pc = "done" /\ last.fetchOk /\ last.quiet
  /\ \A c \in {1, 2} :
       /\ c \in viewers
       /\ ShowsRows(orderItems[c], store)
       /\ tempOrderItems[c] = <<>>
       /\ availableTickets[c][Apple] = Tail(ArrayFrom)
       /\ availableTickets[c][Banana] = ArrayFrom

\* the local state of the pages
Local == <<orderItems, tempOrderItems, tempTotal, availableTickets, alert>>

\* C14: a failed insert, delete or select leaves the table, the pending
\* notifications and every page's local state as they are, and the handler
\* that made the call goes on to its next call or to its continuation, no
\* handler being lost; and a handler that resumes after a failed call ends,
\* leaves the table alone and opens no alert, so that every button and the
\* listener are as available as after a handler without a failure.
FailuresAreSwallowed ==
  [][\A c \in Clients : \A t \in TasksOf(c) :
       /\ (\/ addOrderToDatabase(c, t, FALSE)
           \/ removeOrderFromDatabase(c, t, FALSE)
           \/ selectOrders(c, t, FALSE)) =>
            /\ UNCHANGED <<store, nextId, notif, Local, clock, viewers>>
            /\ budget'.clicks = budget.clicks /\ budget'.tasks = budget.tasks
            /\ \A d \in Clients : BagCardinality(tasks'[d]) = BagCardinality(tasks[d])
            /\ \E u \in BagToSet(tasks'[c]) :
                 /\ u.op = t.op /\ u.temps = t.temps /\ u.id = t.id
                 /\ u.pc = CASE t.pc = "insert" -> "insert-answered"
                              [] t.pc = "delete" -> "delete-answered"
                              [] OTHER -> "resume"
       /\ (resume(c, t) /\ (~t.writeOk \/ ~t.fetchOk)) =>
            /\ UNCHANGED <<store, nextId, notif, alert, budget, viewers>>
            /\ BagCardinality(tasks'[c]) = BagCardinality(tasks[c]) - 1
            /\ alert'[c] = "none"
            /\ MayAwait(c)']_vars

\* C14 witness: the select of the initial load failed, the handler ran to
\* its end, and the user then staged an apple
FailuresAreSwallowedSeen ==
  /\ budget.failures < Budget.failures
  /\ last.op = "addTempItem" /\ last.ticket # Null
  /\ tasks[last.c] = EmptyBag
  /\ store = PreloadedRows /\ orderItems[last.c] = <<>>
  /\ Len(tempOrderItems[last.c]) = 1

\* C15: a recomputation of a page's pools that directly follows a
\* recomputation from the same order list, of that page or of a page that
\* held another pool before, yields the pools that one yielded.
RecomputeIsIdempotent ==
  [][last.op = "updateAvailableTickets" =>
       \A c \in Clients :
         (orderItems[c] = orderItems[last.c] /\ recompute(c)) =>
           availableTickets'[c] = availableTickets[last.c]]_vars

\* C15 witness: page 1 has recomputed twice in a row, from a list with two
\* apple orders of ticket 1, and its apple pool is 2..10
RecomputeIsIdempotentSeen ==
  /\ last.op = "updateAvailableTickets" /\ last.pc = "again" /\ last.c = 1
  /\ Len(orderItems[1]) = 2
  /\ orderItems[1][1].item = Apple /\ orderItems[1][2].item = Apple
  /\ orderItems[1][1].ticketNumber = 1 /\ orderItems[1][2].ticketNumber = 1
  /\ availableTickets[1][Apple] = Tail(ArrayFrom)
  /\ availableTickets[2] # availableTickets[1]

\* the staged orders of client c, as <<position, kind, ticket>>
Staged(c) ==
  {<<i, tempOrderItems[c][i].item, tempOrderItems[c][i].ticketNumber>> :
     i \in 1..Len(tempOrderItems[c])}

\* C16: within one client no two staged orders of one kind have the same
\* ticket, and no staged order has the ticket of an order of its kind in the
\* client's fetched list.
StagedTicketsAreUnique ==
  \A c \in Clients :
    /\ \A x, y \in Staged(c) : (x[1] # y[1] /\ x[2] = y[2]) => x[3] # y[3]
    /\ \A x \in Staged(c) : x[3] \notin TicketsOf(orderItems[c], x[2])

\* C17: a handler that resumes after its select failed leaves the client's
\* fetched list and pools as they were.
FailedFetchKeepsState ==
  [][\A c \in Clients : \A t \in TasksOf(c) :
       (resume(c, t) /\ ~t.fetchOk) =>
         /\ orderItems'[c] = orderItems[c]
         /\ availableTickets'[c] = availableTickets[c]]_vars

\* C18: no two rows of the table were written for the same staged order.
StagedOrderWrittenOnce ==
  \A i, j \in 1..Len(store) :
    (i # j /\ store[i].src # 0) => store[i].src # store[j].src

\* C19: for every client and item kind, every number of 1..10 is in the pool
\* of that kind, or the ticket of a staged order of that kind, or the ticket
\* of an order of that kind in the fetched list.
NoTicketLost ==
  \A c \in Clients, item \in Items :
    AllTickets \subseteq
      Range(availableTickets[c][item]) \cup TicketsOf(tempOrderItems[c], item)
        \cup TicketsOf(orderItems[c], item)

\* C19 witness: apple tickets 1..9 are in the fetched list, apple ticket 10
\* has just been staged and the apple pool is empty
NoTicketLostSeen ==
  /\ last.op = "addTempItem" /\ last.item = Apple /\ last.ticket = TICKET_COUNT
  /\ TicketsOf(orderItems[last.c], Apple) = AllTickets \ {TICKET_COUNT}
  /\ TicketsOf(tempOrderItems[last.c], Apple) = {TICKET_COUNT}
  /\ availableTickets[last.c][Apple] = <<>>
  /\ availableTickets[last.c][Banana] = ArrayFrom

====
